---- MODULE Spec2Model ----
(***************************************************************************)
(* Bitcoin Transaction Analyzer (BCtransaction_Tracker.py).                *)
(*                                                                         *)
(* Texts (entry contents, hashes) are sequences of one-character strings.  *)
(* A datetime is the number of seconds since 1970-01-01 00:00:00 of the    *)
(* naive local calendar; a date is the number of days since 1970-01-01.    *)
(* An amount is held in units of 1e-8 BTC, so that round(x / 1e8, 8) is    *)
(* exact and the order of amounts is the order of the floats.              *)
(***************************************************************************)
EXTENDS Integers, Sequences, FiniteSets, TLC

\* ------------------------------------------------------------ bounds
\* Longest Record Set drawn by the filter and chart specifications.
MaxLen == 2
\* Number of clock advances (of half a day each) the model follows.
MaxTicks == 1
\* Worker threads the model can hold at once.
MaxWorkers == 2

\* ------------------------------------------------------------ program constants
SatoshiPerBTC == 100000000
HashDisplayLen == 15
SecondsPerDay == 86400

\* ------------------------------------------------------------ texts
Whitespace == {" "}

RECURSIVE lstrip(_)
lstrip(t) ==
    IF t # <<>> /\ Head(t) \in Whitespace THEN lstrip(Tail(t)) ELSE t

RECURSIVE rstrip(_)
rstrip(t) ==
    IF t # <<>> /\ t[Len(t)] \in Whitespace
    THEN rstrip(SubSeq(t, 1, Len(t) - 1))
    ELSE t

\* str.strip()
strip(t) == rstrip(lstrip(t))

lowerChar(c) ==
    CASE c = "A" -> "a"
      [] c = "B" -> "b"
      [] c = "C" -> "c"
      [] c = "N" -> "n"
      [] OTHER -> c

\* str.lower()
lower(t) == [i \in 1..Len(t) |-> lowerChar(t[i])]

\* q in h, for strings
contains(q, h) ==
    \E i \in 0..(Len(h) - Len(q)) : SubSeq(h, i + 1, i + Len(q)) = q

Digits == {"0", "1", "2", "3", "4", "5", "6", "7", "8", "9"}

DigitVal(c) ==
    CASE c = "0" -> 0 [] c = "1" -> 1 [] c = "2" -> 2 [] c = "3" -> 3
      [] c = "4" -> 4 [] c = "5" -> 5 [] c = "6" -> 6 [] c = "7" -> 7
      [] c = "8" -> 8 [] c = "9" -> 9

RECURSIVE DigitsValue(_)
DigitsValue(t) ==
    IF t = <<>> THEN 0
    ELSE DigitsValue(SubSeq(t, 1, Len(t) - 1)) * 10 + DigitVal(t[Len(t)])

\* Optional values: None, a float, the float nan, a datetime.
None == [kind |-> "None", val |-> 0]
NaN == [kind |-> "nan", val |-> 0]
Float(v) == [kind |-> "float", val |-> v]
ValueError == [kind |-> "ValueError", val |-> 0]
Datetime(v) == [kind |-> "datetime", val |-> v]

\* float(text) on the texts the model types into the amount entries: a run
\* of decimal digits is that number, "nan" in any case is the float nan,
\* anything else of these raises ValueError.  The value is in 1e-8 BTC.
float(t) ==
    LET s == strip(t) IN
    IF s # <<>> /\ \A i \in 1..Len(s) : s[i] \in Digits
    THEN Float(DigitsValue(s) * SatoshiPerBTC)
    ELSE IF lower(s) = <<"n", "a", "n">> THEN NaN
    ELSE ValueError

FloatLess_inverted(a, f) == f.kind = "float" /\ a > f.val

\* amount < bound and amount > bound for a float bound: every comparison
\* with nan is False.
FloatLess(a, f) == f.kind = "float" /\ a < f.val
FloatGreater(a, f) == f.kind = "float" /\ a > f.val

\* ------------------------------------------------------------ calendar
\* date(y, m, d) as days since 1970-01-01 (proleptic Gregorian calendar).
DaysFromCivil(y, m, d) ==
    LET yy == IF m <= 2 THEN y - 1 ELSE y
        era == yy \div 400
        yoe == yy - era * 400
        mp == (m + 9) % 12
        doy == (153 * mp + 2) \div 5 + d - 1
        doe == yoe * 365 + yoe \div 4 - yoe \div 100 + doy
    IN era * 146097 + doe - 719468

\* The (year, month, day) of a date.
CivilFromDays(z) ==
    LET zz == z + 719468
        era == zz \div 146097
        doe == zz - era * 146097
        yoe == (doe - doe \div 1460 + doe \div 36524 - doe \div 146096) \div 365
        doy == doe - (365 * yoe + yoe \div 4 - yoe \div 100)
        mp == (5 * doy + 2) \div 153
        d == doy - (153 * mp + 2) \div 5 + 1
        m == IF mp < 10 THEN mp + 3 ELSE mp - 9
        y == yoe + era * 400
    IN [year |-> IF m <= 2 THEN y + 1 ELSE y, month |-> m, day |-> d]

\* datetime.date(), .year, .month, .weekday() (Monday = 0)
DateOf(dt) == dt \div SecondsPerDay
YearOf(dt) == CivilFromDays(DateOf(dt)).year
MonthOf(dt) == CivilFromDays(DateOf(dt)).month
Weekday(dt) == (DateOf(dt) + 3) % 7

\* datetime(y, m, d, hh, mm)
DT(y, m, d, hh, mm) == DaysFromCivil(y, m, d) * SecondsPerDay + hh * 3600 + mm * 60

\* dt - timedelta(days=n)
MinusDays(dt, n) == dt - n * SecondsPerDay

\* dt.strftime("%Y-%m-%d %H:%M"): the fields down to the minute
strftime(dt) ==
    LET c == CivilFromDays(DateOf(dt))
        s == dt % SecondsPerDay
    IN <<c.year, c.month, c.day, s \div 3600, (s % 3600) \div 60>>

\* ------------------------------------------------------------ parser
\* A raw transaction object of the API: the keys it has and their values
\* ("time" may be JSON null).
RawTx(keys, h, tkind, t, out) ==
    [keys |-> keys, hash |-> h, time |-> [kind |-> tkind, val |-> t], out |-> out]

RECURSIVE SumSeq(_)
SumSeq(s) == IF s = <<>> THEN 0 ELSE Head(s) + SumSeq(Tail(s))

Min(a, b) == IF a <= b THEN a ELSE b

NoHashText == <<"(", "n", "o", " ", "h", "a", "s", "h", ")">>
Ellipsis == <<".", ".", ".">>

\* datetime.fromtimestamp(timestamp) on a host whose zone is UTC
fromtimestamp(ts) == ts

\* The body of the loop of parse_transactions for one transaction.
parse_one(tx) ==
    LET tx_hash == IF "hash" \in tx.keys THEN tx.hash ELSE <<>>
        timestamp == IF "time" \in tx.keys THEN tx.time.val ELSE 0
        dt == fromtimestamp(timestamp)
        amount == SumSeq(IF "out" \in tx.keys THEN tx.out ELSE <<>>)
    IN [hash_full |-> tx_hash,
        hash |-> IF tx_hash # <<>>
                 THEN SubSeq(tx_hash, 1, Min(HashDisplayLen, Len(tx_hash))) \o Ellipsis
                 ELSE NoHashText,
        dt |-> dt,
        date_str |-> strftime(dt),
        amount |-> amount]

\* fromtimestamp(None) raises TypeError
ParseRaises(tx) == "time" \in tx.keys /\ tx.time.kind = "null"

Ok(v) == [raised |-> FALSE, exc |-> "", val |-> v]
Raised(msg) == [raised |-> TRUE, exc |-> msg, val |-> <<>>]

parse_transactions(txs) ==
    IF \E i \in 1..Len(txs) : ParseRaises(txs[i])
    THEN Raised("'NoneType' object cannot be interpreted as an integer")
    ELSE Ok([i \in 1..Len(txs) |-> parse_one(txs[i])])

\* ------------------------------------------------------------ fetcher
\* What requests.get does for one call: it raises, or it returns a response.
TransportError == [kind |-> "RequestException", status_code |-> 0, has_txs |-> FALSE, txs |-> <<>>]
Response(code, has_txs, txs) ==
    [kind |-> "response", status_code |-> code, has_txs |-> has_txs, txs |-> txs]

fetch_transactions(resp) ==
    IF resp.kind = "RequestException" THEN Raised("Network error: timed out")
    ELSE IF resp.status_code # 200
    THEN Raised("Bitcoin address not found or API is not responding")
    ELSE Ok(IF resp.has_txs THEN resp.txs ELSE <<>>)

\* ------------------------------------------------------------ chart
NoChart ==
    [shown |-> FALSE, x_vals |-> <<>>, y_vals |-> <<>>, chart_type |-> "",
     x_label |-> "", title_suffix |-> ""]

\* The bucket key of one record under a grouping selector.
BucketKey(group_by, r) ==
    CASE group_by = "Day" -> DateOf(r.dt)
      [] group_by = "Week" -> DateOf(MinusDays(r.dt, Weekday(r.dt)))
      [] group_by = "Year" -> YearOf(r.dt)
      [] OTHER -> DaysFromCivil(YearOf(r.dt), MonthOf(r.dt), 1)

RECURSIVE Tally_overwrite(_)
Tally_overwrite(ks) ==
    IF ks = <<>> THEN [k \in {} |-> 0]
    ELSE LET f == Tally_overwrite(SubSeq(ks, 1, Len(ks) - 1))
             k == ks[Len(ks)]
         IN [x \in DOMAIN f \cup {k} |-> IF x = k THEN 1 ELSE f[x]]

\* freq[k] = freq.get(k, 0) + 1 over the keys in order
RECURSIVE Tally(_)
Tally(ks) ==
    IF ks = <<>> THEN [k \in {} |-> 0]
    ELSE LET f == Tally(SubSeq(ks, 1, Len(ks) - 1))
             k == ks[Len(ks)]
         IN [x \in DOMAIN f \cup {k} |->
                IF x = k THEN (IF k \in DOMAIN f THEN f[k] ELSE 0) + 1 ELSE f[x]]

MinOf(S) == CHOOSE m \in S : \A x \in S : m <= x

\* sorted(keys)
RECURSIVE sorted(_)
sorted(S) ==
    IF S = {} THEN <<>> ELSE LET m == MinOf(S) IN <<m>> \o sorted(S \ {m})

\* show_graph: the chart it renders, NoChart when it returns without one.
show_graph(records, group_by, title_suffix) ==
    IF records = <<>> THEN NoChart
    ELSE LET freq == Tally([i \in 1..Len(records) |-> BucketKey(group_by, records[i])])
             x_vals == sorted(DOMAIN freq)
         IN [shown |-> TRUE,
             x_vals |-> x_vals,
             y_vals |-> [i \in 1..Len(x_vals) |-> freq[x_vals[i]]],
             chart_type |-> IF group_by = "Year" THEN "bar" ELSE "line",
             x_label |-> CASE group_by = "Day" -> "Date"
                           [] group_by = "Week" -> "Week (starts on Monday)"
                           [] group_by = "Year" -> "Year"
                           [] OTHER -> "Month",
             title_suffix |-> title_suffix]

\* ------------------------------------------------------------ filter
start_dt_default(sel, now_) ==
    CASE sel = "Last 30 days" -> Datetime(MinusDays(now_, 30))
      [] sel = "Last 90 days" -> Datetime(MinusDays(now_, 90))
      [] sel = "Last 1 year" -> Datetime(MinusDays(now_, 365))
      [] sel = "Year to date" -> Datetime(DT(YearOf(now_), 1, 1, 0, 0))
      [] OTHER -> Datetime(MinusDays(now_, 7))

\* The window start apply_filters computes from the period label.
start_dt(sel, now_) ==
    CASE sel = "Last 7 days" -> Datetime(MinusDays(now_, 7))
      [] sel = "Last 30 days" -> Datetime(MinusDays(now_, 30))
      [] sel = "Last 90 days" -> Datetime(MinusDays(now_, 90))
      [] sel = "Last 1 year" -> Datetime(MinusDays(now_, 365))
      [] sel = "Year to date" -> Datetime(DT(YearOf(now_), 1, 1, 0, 0))
      [] OTHER -> None

Warning(message) == [kind |-> "showwarning", title |-> "Warning", message |-> message]

\* One amount bound: the value and the warnings raised while reading it.
AmountBound(txt_var, message) ==
    LET txt == strip(txt_var)
        v == IF txt # <<>> THEN float(txt) ELSE None
    IN IF v.kind = "ValueError"
       THEN [val |-> None, popups |-> <<Warning(message)>>]
       ELSE [val |-> v, popups |-> <<>>]

\* The test of the filter loop for one record: TRUE when it is appended.
Keep(r, start, q, min_val, max_val) ==
    /\ ~(start.kind # "None" /\ r.dt < start.val)
    /\ ~(q # <<>> /\ ~contains(q, lower(r.hash_full)))
    /\ ~(min_val.kind # "None" /\ FloatLess(r.amount, min_val))
    /\ ~(max_val.kind # "None" /\ FloatGreater(r.amount, max_val))

\* The list `filtered` apply_filters builds.
filtered(records, sel, search, min_txt, max_txt, now_) ==
    LET start == start_dt(sel, now_)
        q == lower(strip(search))
        min_val == AmountBound(min_txt, "Min amount is not a valid number.").val
        max_val == AmountBound(max_txt, "Max amount is not a valid number.").val
        keep(r) == Keep(r, start, q, min_val, max_val)
    IN SelectSeq(records, keep)

Row(r) == <<r.hash, r.date_str, r.amount>>

update_table_noclear(rows, records) ==
    rows \o [i \in 1..Len(records) |-> Row(records[i])]

\* update_table: the rows of the table afterwards.
update_table(rows, records) ==
    LET cleared == <<>>
    IN cleared \o [i \in 1..Len(records) |-> Row(records[i])]

\* ------------------------------------------------------------ state
VARIABLES
    entry_address,      \* text of the address entry
    period_var,         \* period label of the period selector
    group_by_var,       \* label of the grouping selector
    search_var,         \* text of the "Transaction contains" entry
    min_amount_var,     \* text of the "Min amount" entry
    max_amount_var,     \* text of the "Max amount" entry
    all_records,        \* the Record Set
    table,              \* rows of the Treeview, in order
    status_label,       \* [text, foreground]
    btn,                \* the fetch trigger: [state, text]
    workers,            \* worker threads: [pc, exc], exc the binding of `exc`
    after_queue,        \* callbacks scheduled with root.after, oldest first
    now,                \* the wall clock
    apply_now,          \* `now` as read by the latest apply_filters that filtered
    popups,             \* message boxes raised by the latest handler, in order
    chart,              \* the chart rendered by the latest handler
    reported            \* exceptions Tk reported for callbacks that raised

vars ==
    <<entry_address, period_var, group_by_var, search_var, min_amount_var,
      max_amount_var, all_records, table, status_label, btn, workers,
      after_queue, now, apply_now, popups, chart, reported>>

criteria == <<period_var, group_by_var, search_var, min_amount_var, max_amount_var>>
controller == <<status_label, btn, workers, after_queue, reported>>

SampleAddress ==
    <<"1", "B", "o", "a", "t", "S", "L", "R", "H", "t", "K", "N", "n", "g", "k",
      "d", "X", "E", "e", "o", "b", "R", "7", "6", "b", "5", "3", "L", "E", "T",
      "t", "p", "y", "T">>

PeriodLabels ==
    {"All time", "Last 7 days", "Last 30 days", "Last 90 days", "Year to date",
     "Last 1 year"}
GroupLabels == {"Day", "Week", "Month", "Year"}

IdleWorker == [pc |-> "idle", exc |-> None]
Str(msg) == [kind |-> "str", val |-> msg]

\* The clock of the first state and the step of one advance.
StartClock == DT(2024, 12, 31, 12, 0)
TickSeconds == SecondsPerDay \div 2

\* ------------------------------------------------------------ handlers
set_status(text, color) == status_label' = [text |-> text, foreground |-> color]

handle_error_clears(msg) ==
    /\ set_status(msg, "red")
    /\ btn' = [state |-> "normal", text |-> "Get Transactions"]
    /\ popups' = <<[kind |-> "showerror", title |-> "Gabim", message |-> msg]>>
    /\ chart' = NoChart
    /\ table' = <<>>
    /\ UNCHANGED <<all_records, apply_now>>

handle_error(msg) ==
    /\ set_status(msg, "red")
    /\ btn' = [state |-> "normal", text |-> "Get Transactions"]
    /\ popups' = <<[kind |-> "showerror", title |-> "Gabim", message |-> msg]>>
    /\ chart' = NoChart
    /\ UNCHANGED <<all_records, table, apply_now>>

NoDataInfo == [kind |-> "showinfo", title |-> "Info", message |-> "No data after filtering."]

\* apply_filters over the Record Set `records` with the selector values
\* `sel` and `group`; the entries are read as they stand.
apply_filters(records, sel, group) ==
    IF records = <<>>
    THEN /\ popups' = <<>>
         /\ chart' = NoChart
         /\ UNCHANGED <<table, apply_now>>
    ELSE LET min_b == AmountBound(min_amount_var, "Min amount is not a valid number.")
             max_b == AmountBound(max_amount_var, "Max amount is not a valid number.")
             f == filtered(records, sel, search_var, min_amount_var, max_amount_var, now)
             suffix == IF sel # "" /\ sel # "All time" THEN sel ELSE "All"
         IN /\ apply_now' = Datetime(now)
            /\ table' = update_table(table, f)
            /\ IF f # <<>>
               THEN /\ chart' = show_graph(f, group, suffix)
                    /\ popups' = min_b.popups \o max_b.popups
               ELSE /\ chart' = NoChart
                    /\ popups' = min_b.popups \o max_b.popups \o <<NoDataInfo>>

update_after_fetch(records) ==
    /\ all_records' = records
    /\ set_status("Ready", "green")
    /\ btn' = [state |-> "normal", text |-> "Get Transactions"]
    /\ apply_filters(records, period_var, group_by_var)

\* A worker slot no thread runs in and no scheduled callback refers to.
FreeSlot(i) ==
    /\ workers[i].pc = "idle"
    /\ \A k \in 1..Len(after_queue) : after_queue[k].cell # i

\* btn.config(state="disabled", text="Working...")
DisabledButton_enabled == [state |-> "normal", text |-> "Working..."]
DisabledButton == [state |-> "disabled", text |-> "Working..."]

\* `not address` for address = entry_address.get().strip()
IsEmptyAddress_nostrip(entry) == entry = <<>>
IsEmptyAddress(entry) == strip(entry) = <<>>

EmptyAddressWarning ==
    [kind |-> "showwarning", title |-> "Error", message |-> "Please enter a Bitcoin address!"]

get_transactions ==
    IF IsEmptyAddress(entry_address)
    THEN /\ popups' = <<EmptyAddressWarning>>
         /\ chart' = NoChart
         /\ UNCHANGED <<status_label, btn, workers>>
    ELSE /\ set_status("Fetching data...", "blue")
         /\ btn' = DisabledButton
         /\ LET i == MinOf({j \in 1..MaxWorkers : FreeSlot(j)})
            IN workers' = [workers EXCEPT ![i] = [pc |-> "running", exc |-> None]]
         /\ popups' = <<>>
         /\ chart' = NoChart

\* The callbacks load_transactions schedules.
UpdateCallback(i, records) ==
    [kind |-> "update_after_fetch", records |-> records, cell |-> i, failure |-> ""]
ErrorCallback(i, msg) ==
    [kind |-> "handle_error", records |-> <<>>, cell |-> i, failure |-> msg]

\* What load_transactions makes of one response: the fetch, then the parse.
load_result(resp) ==
    LET txs == fetch_transactions(resp)
    IN IF txs.raised THEN txs ELSE parse_transactions(txs.val)

\* ------------------------------------------------------------ inputs
\* Transactions the API returns in the model.
TxA == RawTx({"hash", "time", "out"}, <<"a", "B", "1">>, "int", DT(2024, 12, 24, 18, 0), <<30000000, 20000000>>)
TxB == RawTx({"hash", "time", "out"}, <<"c", "2">>, "int", DT(2024, 6, 1, 9, 0), <<125000000>>)
TxC == RawTx({"time", "out"}, <<>>, "int", DT(2024, 1, 1, 6, 0), <<300000000>>)
TxD == RawTx({"hash", "time"}, <<"a", "b">>, "int", DT(2023, 11, 15, 10, 0), <<>>)
TxNullTime == RawTx({"hash", "time", "out"}, <<"d">>, "null", 0, <<1>>)

Responses ==
    {TransportError,
     Response(404, FALSE, <<>>),
     Response(200, FALSE, <<>>),
     Response(200, TRUE, <<TxA, TxB>>),
     Response(200, TRUE, <<TxD>>),
     Response(200, TRUE, <<TxA, TxNullTime>>)}

TxE == RawTx({"hash", "time", "out"}, <<"A", "b", "c">>, "int", DT(2024, 11, 20, 8, 30), <<150000000>>)

\* Records the filter specification draws its Record Sets from.
FilterPool == {parse_one(TxA), parse_one(TxB), parse_one(TxC), parse_one(TxE)}

\* Records the chart specification draws from: two on one Monday, one later
\* in that week but in the next year, the Sunday before, a day of the month
\* before, and the last day (a Sunday) of the year before.
GraphTx(t) == RawTx({"hash", "time", "out"}, <<"e">>, "int", t, <<100000000>>)
GraphPool ==
    {parse_one(GraphTx(DT(2024, 12, 30, 10, 0))),
     parse_one(GraphTx(DT(2024, 12, 30, 23, 30))),
     parse_one(GraphTx(DT(2025, 1, 1, 8, 0))),
     parse_one(GraphTx(DT(2024, 12, 29, 12, 0))),
     parse_one(GraphTx(DT(2024, 11, 30, 0, 0))),
     parse_one(GraphTx(DT(2023, 12, 31, 23, 59)))}

\* The non-empty sequences over S of length at most n.
SeqsUpTo(S, n) == UNION {[1..k -> S] : k \in 1..n}

AddressTexts == {SampleAddress, <<" ", " ">>}
SearchTexts == {<<>>, <<" ", "A", "b">>}
MinTexts == {<<>>, <<"1">>, <<" ", "2">>, <<"x">>, <<"n", "a", "N">>}
MaxTexts == {<<>>, <<"1">>, <<"2", " ">>, <<"x">>}
\* Selectors show_graph is called with: those of the selector, and another.
GraphSelectors == GroupLabels \cup {"Quarter"}

\* ------------------------------------------------------------ actions
\* Tk runs the command of the button only while the button is not disabled.
ClickGetTransactions ==
    /\ btn.state = "normal"
    /\ \E j \in 1..MaxWorkers : FreeSlot(j)
    /\ get_transactions
    /\ UNCHANGED <<entry_address, criteria, all_records, table, after_queue,
                   now, apply_now, reported>>

\* The worker thread: fetch and parse succeed, the result is scheduled.
LoadTransactionsOk(i) ==
    /\ workers[i].pc = "running"
    /\ \E resp \in Responses :
          LET r == load_result(resp) IN
          /\ ~r.raised
          /\ after_queue' = Append(after_queue, UpdateCallback(i, r.val))
    /\ workers' = [workers EXCEPT ![i] = IdleWorker]
    /\ UNCHANGED <<entry_address, criteria, all_records, table, status_label,
                   btn, now, apply_now, popups, chart, reported>>

\* The worker thread: the fetch or the parse raises; inside the handler
\* `exc` is bound and the error callback, which refers to `exc`, is scheduled.
LoadTransactionsExcept(i) ==
    /\ workers[i].pc = "running"
    /\ \E resp \in Responses :
          LET r == load_result(resp) IN
          /\ r.raised
          /\ after_queue' = Append(after_queue, ErrorCallback(i, r.exc))
          /\ workers' = [workers EXCEPT ![i] = [pc |-> "in_except", exc |-> Str(r.exc)]]
    /\ UNCHANGED <<entry_address, criteria, all_records, table, status_label,
                   btn, now, apply_now, popups, chart, reported>>

\* The worker thread leaves the handler: `exc` is deleted, the thread ends.
LeaveExcept(i) ==
    /\ workers[i].pc = "in_except"
    /\ workers' = [workers EXCEPT ![i] = IdleWorker]
    /\ UNCHANGED <<entry_address, criteria, all_records, table, status_label,
                   btn, after_queue, now, apply_now, popups, chart, reported>>

\* The event loop runs the oldest callback: lambda: update_after_fetch(records)
RunUpdateCallback ==
    /\ after_queue # <<>>
    /\ Head(after_queue).kind = "update_after_fetch"
    /\ after_queue' = Tail(after_queue)
    /\ update_after_fetch(Head(after_queue).records)
    /\ UNCHANGED <<entry_address, criteria, workers, now, reported>>

\* lambda: handle_error(str(exc)), run while `exc` is still bound
RunErrorCallback ==
    /\ after_queue # <<>>
    /\ Head(after_queue).kind = "handle_error"
    /\ workers[Head(after_queue).cell].exc.kind = "str"
    /\ after_queue' = Tail(after_queue)
    /\ handle_error(workers[Head(after_queue).cell].exc.val)
    /\ UNCHANGED <<entry_address, criteria, workers, now, reported>>

\* lambda: handle_error(str(exc)), run after `exc` was deleted: the lambda
\* raises NameError, which Tk reports; handle_error is not called.
RunErrorCallbackUnbound ==
    /\ after_queue # <<>>
    /\ Head(after_queue).kind = "handle_error"
    /\ workers[Head(after_queue).cell].exc.kind = "None"
    /\ after_queue' = Tail(after_queue)
    /\ reported' = reported \cup {"NameError"}
    /\ popups' = <<>>
    /\ chart' = NoChart
    /\ UNCHANGED <<entry_address, criteria, all_records, table, status_label,
                   btn, workers, now, apply_now>>

\* The "Apply Filters" button, or Return in one of the filter entries.
ApplyFiltersEvent ==
    /\ apply_filters(all_records, period_var, group_by_var)
    /\ UNCHANGED <<entry_address, criteria, all_records, controller, now>>

\* <<ComboboxSelected>> of the period selector
SelectPeriod(labels) ==
    \E p \in labels :
        /\ period_var' = p
        /\ apply_filters(all_records, p, group_by_var)
        /\ UNCHANGED <<entry_address, group_by_var, search_var, min_amount_var,
                       max_amount_var, all_records, controller, now>>

\* <<ComboboxSelected>> of the grouping selector
SelectGroup(labels) ==
    \E g \in labels :
        /\ group_by_var' = g
        /\ apply_filters(all_records, period_var, g)
        /\ UNCHANGED <<entry_address, period_var, search_var, min_amount_var,
                       max_amount_var, all_records, controller, now>>

\* The user edits the address entry.
TypeAddress(texts) ==
    /\ \E t \in texts : entry_address' = t
    /\ UNCHANGED <<criteria, all_records, table, controller, now, apply_now, popups, chart>>

\* The wall clock advances.
Tick ==
    /\ now < StartClock + MaxTicks * TickSeconds
    /\ now' = now + TickSeconds
    /\ UNCHANGED <<entry_address, criteria, all_records, table, controller,
                   apply_now, popups, chart>>

\* ------------------------------------------------------------ the application
\* The state when root.mainloop() starts.
Init ==
    /\ entry_address = SampleAddress
    /\ period_var = "Last 1 year"
    /\ group_by_var = "Month"
    /\ search_var = <<>>
    /\ min_amount_var = <<>>
    /\ max_amount_var = <<>>
    /\ all_records = <<>>
    /\ table = <<>>
    /\ status_label = [text |-> "Ready", foreground |-> "#0B8043"]
    /\ btn = [state |-> "normal", text |-> "Get Transactions"]
    /\ workers = [i \in 1..MaxWorkers |-> IdleWorker]
    /\ after_queue = <<>>
    /\ now = StartClock
    /\ apply_now = None
    /\ popups = <<>>
    /\ chart = NoChart
    /\ reported = {}

Next ==
    \/ ClickGetTransactions
    \/ \E i \in 1..MaxWorkers : LoadTransactionsOk(i)
    \/ \E i \in 1..MaxWorkers : LoadTransactionsExcept(i)
    \/ \E i \in 1..MaxWorkers : LeaveExcept(i)
    \/ RunUpdateCallback
    \/ RunErrorCallback
    \/ RunErrorCallbackUnbound
    \/ ApplyFiltersEvent
    \/ SelectPeriod({"Last 1 year", "Last 7 days"})
    \/ TypeAddress(AddressTexts)
    \/ Tick

Spec == Init /\ [][Next]_vars

\* ------------------------------------------------------------ the filter alone
\* A Record Set is loaded and the filter controls hold any of the model's
\* entries; the filters are applied as the clock advances.
InitFilter ==
    /\ entry_address = SampleAddress
    /\ period_var \in PeriodLabels
    /\ group_by_var = "Month"
    /\ search_var \in SearchTexts
    /\ min_amount_var \in MinTexts
    /\ max_amount_var \in MaxTexts
    /\ all_records \in SeqsUpTo(FilterPool, MaxLen)
    /\ table = <<>>
    /\ status_label = [text |-> "Ready", foreground |-> "green"]
    /\ btn = [state |-> "normal", text |-> "Get Transactions"]
    /\ workers = [i \in 1..MaxWorkers |-> IdleWorker]
    /\ after_queue = <<>>
    /\ now = StartClock
    /\ apply_now = None
    /\ popups = <<>>
    /\ chart = NoChart
    /\ reported = {}

NextFilter ==
    \/ ApplyFiltersEvent
    \/ Tick

SpecFilter == InitFilter /\ [][NextFilter]_vars

\* ------------------------------------------------------------ the chart alone
\* A Record Set is loaded, no filter is set, and the grouping is any selector.
InitGraph ==
    /\ entry_address = SampleAddress
    /\ period_var = "All time"
    /\ group_by_var \in GraphSelectors
    /\ search_var = <<>>
    /\ min_amount_var = <<>>
    /\ max_amount_var = <<>>
    /\ all_records \in SeqsUpTo(GraphPool, MaxLen)
    /\ table = <<>>
    /\ status_label = [text |-> "Ready", foreground |-> "green"]
    /\ btn = [state |-> "normal", text |-> "Get Transactions"]
    /\ workers = [i \in 1..MaxWorkers |-> IdleWorker]
    /\ after_queue = <<>>
    /\ now = StartClock
    /\ apply_now = None
    /\ popups = <<>>
    /\ chart = NoChart
    /\ reported = {}

NextGraph ==
    \/ ApplyFiltersEvent
    \/ SelectGroup(GroupLabels)

SpecGraph == InitGraph /\ [][NextGraph]_vars

\* ------------------------------------------------------------ properties
\* Steps of the program, recognised by what they do.
ErrorCallbackRuns ==
    /\ after_queue # <<>>
    /\ Head(after_queue).kind = "handle_error"
    /\ after_queue' = Tail(after_queue)

UpdateCallbackRuns ==
    /\ after_queue # <<>>
    /\ Head(after_queue).kind = "update_after_fetch"
    /\ after_queue' = Tail(after_queue)

WorkerCatches ==
    \E i \in 1..MaxWorkers : workers[i].pc = "running" /\ workers'[i].pc = "in_except"

WorkerLeaves ==
    \E i \in 1..MaxWorkers : workers[i].pc = "in_except" /\ workers'[i].pc = "idle"

\* A step in which apply_filters is called.
ApplyFiltersCalled ==
    \/ ApplyFiltersEvent
    \/ SelectPeriod(PeriodLabels)
    \/ SelectGroup(GroupLabels)
    \/ RunUpdateCallback

ShowError(msg) == [kind |-> "showerror", title |-> "Gabim", message |-> msg]
InPopups(p) == \E k \in 1..Len(popups) : popups[k] = p
InPopupsNext(p) == \E k \in 1..Len(popups') : popups'[k] = p

\* Fetches in flight: workers that have not yet scheduled their callback,
\* and scheduled callbacks the event loop has not yet run.
InFlight ==
    Cardinality({i \in 1..MaxWorkers : workers[i].pc = "running"}) + Len(after_queue)

\* C1: whenever the event loop runs the callback of a failed fetch,
\* handle_error runs with the failure's message: the message is shown (status
\* and error box), and the fetch trigger is enabled again, whether or not the
\* worker has already left its exception handler.
C1_FailedFetchIsHandled ==
    [][ErrorCallbackRuns =>
          /\ status_label'.text = Head(after_queue).failure
          /\ btn'.state = "normal"
          /\ InPopupsNext(ShowError(Head(after_queue).failure))]_vars

\* C3: no step of a failing fetch (the worker catching the exception and
\* scheduling the error callback, the worker leaving the handler, the event
\* loop running the error callback) changes the Record Set or the table.
C3_FailedFetchLeavesRecords ==
    [][(WorkerCatches \/ WorkerLeaves \/ ErrorCallbackRuns) =>
          (all_records' = all_records /\ table' = table)]_vars

\* C3 witness: an error was handled while a fetched Record Set is displayed.
C3_Witness ==
    /\ status_label.foreground = "red"
    /\ all_records # <<>>
    /\ table # <<>>
    /\ InFlight = 0

\* C4: at most one fetch is in flight, and while one is the fetch trigger
\* is disabled.
C4_OneFetchInFlight ==
    /\ InFlight <= 1
    /\ (InFlight = 1 => btn.state = "disabled")

\* C4 witness: a second fetch is in flight after a first one completed.
C4_Witness ==
    /\ InFlight = 1
    /\ all_records # <<>>
    /\ btn.state = "disabled"

\* C9: a click on the fetch trigger with an address that is empty after
\* trimming raises the warning and starts no worker, schedules nothing and
\* leaves the trigger, the status, the Record Set and the table as they were.
C9_EmptyAddressRejected ==
    [][(ClickGetTransactions /\ strip(entry_address) = <<>>) =>
          /\ InPopupsNext(EmptyAddressWarning)
          /\ UNCHANGED <<workers, after_queue, btn, status_label, all_records, table>>]_vars

\* C9 witness: the warning was raised over a fetched, displayed Record Set.
C9_Witness ==
    /\ InPopups(EmptyAddressWarning)
    /\ entry_address = <<" ", " ">>
    /\ table # <<>>
    /\ btn.state = "normal"

\* ------------------------------------------------------------ the filter as stated
\* The window start of a period label at clock reading n; "All time" has none.
StatedWindowStart(sel, n) ==
    CASE sel = "Last 7 days" -> n - 7 * SecondsPerDay
      [] sel = "Last 30 days" -> n - 30 * SecondsPerDay
      [] sel = "Last 90 days" -> n - 90 * SecondsPerDay
      [] sel = "Last 1 year" -> n - 365 * SecondsPerDay
      [] sel = "Year to date" -> DaysFromCivil(CivilFromDays(n \div SecondsPerDay).year, 1, 1) * SecondsPerDay

\* Whether an amount entry counts as a number: a decimal number does, and
\* "nan" does under the reading nan_numeric.
StatedNumeric(txt, nan_numeric) ==
    LET v == float(strip(txt)) IN v.kind = "float" \/ (nan_numeric /\ v.kind = "nan")

StatedGiven(txt) == strip(txt) # <<>>

\* The stated predicates of one record (a comparison with nan is false).
StatedSatisfies(r, sel, search, min_txt, max_txt, n, nan_numeric) ==
    /\ sel # "All time" => r.dt >= StatedWindowStart(sel, n)
    /\ LET q == lower(strip(search)) IN q # <<>> => contains(q, lower(r.hash_full))
    /\ (StatedGiven(min_txt) /\ StatedNumeric(min_txt, nan_numeric)) =>
          LET v == float(strip(min_txt)) IN v.kind = "float" /\ r.amount >= v.val
    /\ (StatedGiven(max_txt) /\ StatedNumeric(max_txt, nan_numeric)) =>
          LET v == float(strip(max_txt)) IN v.kind = "float" /\ r.amount <= v.val

StatedFiltered(records, sel, search, min_txt, max_txt, n, nan_numeric) ==
    LET sat(r) == StatedSatisfies(r, sel, search, min_txt, max_txt, n, nan_numeric)
    IN SelectSeq(records, sat)

Rows(records) == [i \in 1..Len(records) |-> Row(records[i])]

\* a is a subsequence of b
RECURSIVE IsSubseq(_, _)
IsSubseq(a, b) ==
    IF a = <<>> THEN TRUE
    ELSE IF b = <<>> THEN FALSE
    ELSE IF Head(a) = Head(b) THEN IsSubseq(Tail(a), Tail(b))
    ELSE IsSubseq(a, Tail(b))

\* C2: when the event loop runs the callback of a successful fetch, the
\* Record Set becomes the fetched list (the empty list included), the trigger
\* is enabled, and the table shows exactly the rows of the records of the new
\* Record Set that satisfy the current criteria, in order.
C2_FetchResultDisplayed ==
    [][UpdateCallbackRuns =>
          LET recs == Head(after_queue).records IN
          /\ all_records' = recs
          /\ btn'.state = "normal"
          /\ \E nn \in BOOLEAN :
                table' = Rows(StatedFiltered(recs, period_var, search_var,
                                             min_amount_var, max_amount_var, now, nn))]_vars

\* C5: a call of apply_filters on a non-empty Record Set displays exactly
\* the rows of the records that satisfy all stated predicates, in order, and
\* raises a warning for exactly the amount entries that are given and not
\* numeric (under either reading of whether "nan" is numeric).
C5_FilterAsStated ==
    [][(ApplyFiltersCalled /\ all_records' # <<>>) =>
          \E nn \in BOOLEAN :
             /\ table' = Rows(StatedFiltered(all_records', period_var', search_var',
                                             min_amount_var', max_amount_var', now, nn))
             /\ InPopupsNext(Warning("Min amount is not a valid number."))
                   <=> (StatedGiven(min_amount_var') /\ ~StatedNumeric(min_amount_var', nn))
             /\ InPopupsNext(Warning("Max amount is not a valid number."))
                   <=> (StatedGiven(max_amount_var') /\ ~StatedNumeric(max_amount_var', nn))]_vars

\* No record stands between the window starts of label sel at the clock
\* readings n1 and n2.
SameWindow(records, sel, n1, n2) ==
    \/ sel = "All time"
    \/ \A i \in 1..Len(records) :
          (records[i].dt >= StatedWindowStart(sel, n1))
             <=> (records[i].dt >= StatedWindowStart(sel, n2))

\* C6 as stated (Record Set and criteria do not change under SpecFilter):
\* a further application of the filters leaves the displayed output as the
\* application before it left it, whatever the clock reads by then.
C6_Idempotent ==
    [][(apply_now.kind = "datetime" /\ ApplyFiltersEvent) => table' = table]_vars

\* C6 amended: a further application leaves the output as it was when the
\* label is "All time", or when no record stands between the window starts of
\* the two clock readings.
C6_IdempotentSameWindow ==
    [][(/\ apply_now.kind = "datetime"
        /\ ApplyFiltersEvent
        /\ SameWindow(all_records, period_var, apply_now.val, now)) => table' = table]_vars

\* C6 witness: the filters were applied with a relative window at a later
\* clock reading than the first, and there is output.
C6_Witness ==
    /\ apply_now.kind = "datetime"
    /\ apply_now.val > StartClock
    /\ period_var = "Last 1 year"
    /\ table # <<>>

\* The labels of the fixed windows, widest first.
WindowRank(sel) ==
    CASE sel = "All time" -> 0
      [] sel = "Last 1 year" -> 1
      [] sel = "Last 90 days" -> 2
      [] sel = "Last 30 days" -> 3
      [] sel = "Last 7 days" -> 4
      [] OTHER -> -1

\* Label p2 is a window no wider than label p1 at clock reading n.
Shortens(p1, p2, n) ==
    \/ WindowRank(p1) >= 0 /\ WindowRank(p2) >= WindowRank(p1)
    \/ /\ p2 = "Year to date"
       /\ p1 = "All time" \/ StatedWindowStart(p1, n) <= StatedWindowStart(p2, n)

Unconstrained(txt) == ~StatedGiven(txt) \/ float(strip(txt)).kind = "ValueError"
IsNumber(txt) == StatedGiven(txt) /\ float(strip(txt)).kind = "float"

\* Entry t2 is a min amount no lower than entry t1.
RaisesMin(t1, t2) ==
    /\ IsNumber(t2)
    /\ Unconstrained(t1) \/ (IsNumber(t1) /\ float(strip(t1)).val <= float(strip(t2)).val)

\* Entry t2 is a max amount no higher than entry t1.
LowersMax(t1, t2) ==
    /\ IsNumber(t2)
    /\ Unconstrained(t1) \/ (IsNumber(t1) /\ float(strip(t1)).val >= float(strip(t2)).val)

\* The output of the latest application (under SpecFilter the Record Set and
\* the criteria are those it read).
LatestOutput ==
    filtered(all_records, period_var, search_var, min_amount_var, max_amount_var,
             apply_now.val)

\* C7: the displayed output is that of the latest application, and with
\* the same Record Set and clock reading every raised min amount, every
\* lowered max amount and every shortened window gives a subsequence of it.
C7_Monotonic ==
    apply_now.kind = "datetime" =>
       /\ table = Rows(LatestOutput)
       /\ \A t2 \in MinTexts :
             RaisesMin(min_amount_var, t2) =>
                IsSubseq(filtered(all_records, period_var, search_var, t2,
                                  max_amount_var, apply_now.val), LatestOutput)
       /\ \A t2 \in MaxTexts :
             LowersMax(max_amount_var, t2) =>
                IsSubseq(filtered(all_records, period_var, search_var,
                                  min_amount_var, t2, apply_now.val), LatestOutput)
       /\ \A p2 \in PeriodLabels :
             Shortens(period_var, p2, apply_now.val) =>
                IsSubseq(filtered(all_records, p2, search_var, min_amount_var,
                                  max_amount_var, apply_now.val), LatestOutput)

\* C7 witness: an application whose output a raised min amount, a lowered
\* max amount and the window "Year to date" each make strictly smaller.
C7_Witness ==
    /\ apply_now.kind = "datetime"
    /\ table # <<>>
    /\ \E t2 \in MinTexts :
          /\ RaisesMin(min_amount_var, t2)
          /\ IsNumber(min_amount_var)
          /\ Len(filtered(all_records, period_var, search_var, t2,
                          max_amount_var, apply_now.val)) < Len(table)
    /\ \E t2 \in MaxTexts :
          /\ LowersMax(max_amount_var, t2)
          /\ Len(filtered(all_records, period_var, search_var,
                          min_amount_var, t2, apply_now.val)) < Len(table)
    /\ period_var = "Last 1 year"
    /\ Shortens(period_var, "Year to date", apply_now.val)
    /\ Len(filtered(all_records, "Year to date", search_var, min_amount_var,
                    max_amount_var, apply_now.val)) < Len(table)

\* C8: in every call of apply_filters on a non-empty Record Set, if no
\* record passes the filters the table is emptied, no chart is rendered and
\* the "No data" box is raised; and a chart is rendered exactly when some
\* record passes.
C8_EmptyResult ==
    [][(ApplyFiltersCalled /\ all_records' # <<>>) =>
          LET f == filtered(all_records', period_var', search_var', min_amount_var',
                            max_amount_var', now)
          IN /\ f = <<>> => (table' = <<>> /\ ~chart'.shown /\ InPopupsNext(NoDataInfo))
             /\ chart'.shown <=> f # <<>>
             /\ InPopupsNext(NoDataInfo) <=> f = <<>>]_vars

\* C8 witness: at a later clock reading the filters, with a min amount that
\* is no number, left nothing of a non-empty Record Set: the table is empty,
\* the warning and the "No data" box were raised, no chart was rendered.
C8_Witness ==
    /\ all_records # <<>>
    /\ apply_now.kind = "datetime"
    /\ apply_now.val > StartClock
    /\ table = <<>>
    /\ popups = <<Warning("Min amount is not a valid number."), NoDataInfo>>
    /\ ~chart.shown

\* The bucket of a datetime as stated: its date, the Monday of its week, the
\* first day of its month, its year.
StatedBucket(group_by, dt) ==
    LET d == dt \div SecondsPerDay IN
    CASE group_by = "Day" -> d
      [] group_by = "Week" -> CHOOSE m \in (d - 6)..d : (m + 3) % 7 = 0
      [] group_by = "Year" -> CivilFromDays(d).year
      [] OTHER -> d - (CivilFromDays(d).day - 1)

\* C10: a rendered chart has its bucket keys strictly ascending, every
\* bucket counts at least one record, the counts sum to the number of records,
\* and each bucket counts exactly the records whose stated bucket it is, every
\* record having its bucket in the chart.
C10_Buckets ==
    chart.shown =>
       LET x == chart.x_vals
           y == chart.y_vals
       IN /\ Len(x) = Len(y)
          /\ \A i \in 1..(Len(x) - 1) : x[i] < x[i + 1]
          /\ \A i \in 1..Len(y) : y[i] >= 1
          /\ SumSeq(y) = Len(all_records)
          /\ \A i \in 1..Len(x) :
                y[i] = Cardinality({j \in 1..Len(all_records) :
                                       StatedBucket(group_by_var, all_records[j].dt) = x[i]})
          /\ \A j \in 1..Len(all_records) :
                \E i \in 1..Len(x) : x[i] = StatedBucket(group_by_var, all_records[j].dt)

\* C10 witness: a chart by week of two records of one week that lie in
\* different years.
C10_Witness ==
    /\ chart.shown
    /\ group_by_var = "Week"
    /\ Len(all_records) = 2
    /\ chart.y_vals = <<2>>
    /\ YearOf(all_records[1].dt) # YearOf(all_records[2].dt)

====
